---- MODULE Spec2Model ----
(***************************************************************************)
(* Model of src/client/index.ts: the Slack API client of vscode-chat.      *)
(*                                                                         *)
(* JavaScript strings that the code takes apart or builds (channel names,  *)
(* user ids used in names) are sequences of one-character strings.         *)
(* JavaScript objects with optional fields are functions whose DOMAIN is   *)
(* the set of fields present.  A promise is a record [state, value].       *)
(***************************************************************************)
EXTENDS Integers, Sequences, FiniteSets, TLC

VARIABLES
    calls,      \* remote operations invoked so far, in order: [op, args]
    group,      \* argument of the groups.map callback (one raw group)
    groupRec,   \* what the callback returned for it, or NotYet
    rawMsg,     \* argument of getMessage (one raw message entry)
    parsed,     \* how getMessage ended for it, or NotYet
    users,      \* the users argument of getChannels
    resp,       \* what the remote answered to each list or lookup call
    listP,      \* getChannels: the promises channels, groups, directs
    chanP,      \* getChannels: the promise it returned
    order,      \* getChannels: the list calls in the order they completed
    histP,      \* the promise getConversationHistory returned
    usersP,     \* the promise getAllUsers returned
    botP,       \* the promise getBotInfo returned
    invoked,    \* getChannelInfo, markChannel, sendMessage invocations
    answers,    \* what the remote answered to the call of each invocation
    retP        \* the promise each of these invocations returned

vars == <<calls, group, groupRec, rawMsg, parsed, users, resp, listP, chanP,
          order, histP, usersP, botP, invoked, answers, retP>>

\* ------------------------------------------------------------------ bounds
MaxBody == 9        \* longest free part of a raw group name
MaxList == 2        \* longest list in a list response
MaxItems == 1       \* most files, attachments, reactions of a raw message
MaxMsgs == 3        \* most entries of a history response
MaxInvocations == 2 \* most invocations of the kind-directed operations

\* --------------------------------------------------- program constants
HISTORY_LIMIT == 50

\* ------------------------------------------------------------ JS values
\* `undefined` where a string is expected (ids are never this string).
Undefined == "undefined"
\* `undefined` where an object is expected.
UndefinedObj == [type |-> "undefined"]
\* the model's "no value computed yet"
NotYet == [type |-> "not-yet"]

\* `null`
Null == [type |-> "null"]
\* an array value
Arr(items) == [type |-> "array", items |-> items]
IsArr(v) == v.type = "array"
\* the empty object {}
EmptyObj == <<>>
\* truthiness of a value that is an object, an array, null or undefined
Truthy(v) == v # UndefinedObj /\ v # Null
\* truthiness of a value that is a string or undefined
TruthyStr(v) == v # Undefined /\ v # ""
\* a[k] for an array value: undefined past the end
At(a, k) == IF k + 1 <= Len(a.items) THEN a.items[k + 1] ELSE UndefinedObj
\* { ...f, ...g }
Spread(f, g) ==
    [k \in DOMAIN f \cup DOMAIN g |-> IF k \in DOMAIN g THEN g[k] ELSE f[k]]
\* promises
NoPromise == [state |-> "none", value |-> NotYet]
Pending == [state |-> "pending", value |-> NotYet]
Fulfilled(v) == [state |-> "fulfilled", value |-> v]
Rejected(e) == [state |-> "rejected", value |-> e]
\* the promise of p.then(callback) once the callback ended as r
Settle(r) == IF r.type = "throw" THEN Rejected(r.value) ELSE Fulfilled(r.value)
\* a transport-level failure of the named remote operation
TransportError(op) == [type |-> "error", op |-> op]

\* how a function body ends
Return(v) == [type |-> "return", value |-> v]
Throw(e) == [type |-> "throw", value |-> e]
IsThrow(r) == r.type = "throw"

\* ------------------------------------------------------------- strings
Hyphen == "-"
Digits == {"0", "1", "2", "3", "4", "5", "6", "7", "8", "9"}
IsDigit(c) == c \in Digits

MPDM == <<"m", "p", "d", "m", "-">>
CommaSpace == <<",", " ">>

\* s.substring(i - 1, j): characters i .. j of s (1-based, inclusive)
Sub(s, i, j) == SubSeq(s, i, j)

\* whether literal lit occurs in s at position i
LitAt(s, i, lit) ==
    /\ i + Len(lit) - 1 <= Len(s)
    /\ \A k \in 1..Len(lit) : s[i + k - 1] = lit[k]

RECURSIVE Join(_, _)
\* Array.prototype.join(sep)
Join(parts, sep) ==
    IF Len(parts) = 0 THEN <<>>
    ELSE IF Len(parts) = 1 THEN parts[1]
    ELSE parts[1] \o sep \o Join(Tail(parts), sep)

RECURSIVE IndexOfFrom(_, _, _)
\* first position >= i at which lit occurs in s, 0 when there is none
IndexOfFrom(s, lit, i) ==
    IF i + Len(lit) - 1 > Len(s) THEN 0
    ELSE IF LitAt(s, i, lit) THEN i
    ELSE IndexOfFrom(s, lit, i + 1)

RECURSIVE Split(_, _)
\* String.prototype.split(sep) for a non-empty separator
Split(s, sep) ==
    LET k == IndexOfFrom(s, sep, 1)
    IN  IF k = 0 THEN <<s>>
        ELSE <<Sub(s, 1, k - 1)>> \o Split(Sub(s, k + Len(sep), Len(s)), sep)

\* filter that keeps the empty strings
FilterNothing(parts) == parts

\* Array.prototype.filter(element => !!element) on strings
FilterNonEmpty(parts) == SelectSeq(parts, LAMBDA e : Len(e) > 0)

\* Array.prototype.map(element => `@${element}`)
MapAt(parts) == [k \in 1..Len(parts) |-> <<"@">> \o parts[k]]

\* ------------------------------------- /mpdm-([^-]+)((--[^-]+)*)-\d+/
\* The matcher follows the backtracking search of the regular expression:
\* every quantifier is greedy and gives characters back one at a time.

RECURSIVE RunEnd(_, _)
\* position after the longest run of non-hyphen characters starting at i
RunEnd(s, i) ==
    IF i <= Len(s) /\ s[i] # Hyphen THEN RunEnd(s, i + 1) ELSE i

\* -\d+ at position j
TailAt(s, j) ==
    /\ j + 1 <= Len(s)
    /\ s[j] = Hyphen
    /\ IsDigit(s[j + 1])

RECURSIVE MatchRest(_, _), MatchRestTok(_, _, _)
\* ((--[^-]+)*)-\d+ from position j: the position after group 2, 0 on failure
MatchRest(s, j) ==
    LET more == IF LitAt(s, j, <<Hyphen, Hyphen>>) /\ RunEnd(s, j + 2) > j + 2
                THEN MatchRestTok(s, j, RunEnd(s, j + 2))
                ELSE 0
    IN  IF more # 0 THEN more
        ELSE IF TailAt(s, j) THEN j
        ELSE 0

\* one more iteration of (--[^-]+) whose token ends before e, e tried downwards
MatchRestTok(s, j, e) ==
    IF e < j + 3 THEN 0
    ELSE LET r == MatchRest(s, e)
         IN  IF r # 0 THEN r ELSE MatchRestTok(s, j, e - 1)

RECURSIVE MatchFirst(_, _, _)
\* ([^-]+) from position i with its end e tried downwards, then the rest:
\* <<end of group 1, end of group 2>> (both exclusive), <<0, 0>> on failure
MatchFirst(s, i, e) ==
    IF e < i + 1 THEN <<0, 0>>
    ELSE LET r == MatchRest(s, e)
         IN  IF r # 0 THEN <<e, r>> ELSE MatchFirst(s, i, e - 1)

\* the whole pattern anchored at position i
MatchAt(s, i) ==
    IF LitAt(s, i, MPDM)
    THEN MatchFirst(s, i + Len(MPDM), RunEnd(s, i + Len(MPDM)))
    ELSE <<0, 0>>

RECURSIVE MatchFrom(_, _)
\* name.match(re): the leftmost start position that matches;
\* [ok, first (group 1), rest (group 2)]
MatchFrom(s, i) ==
    IF i > Len(s) THEN [ok |-> FALSE, first |-> <<>>, rest |-> <<>>]
    ELSE LET m == MatchAt(s, i)
         IN  IF m[1] # 0
             THEN [ok |-> TRUE,
                   first |-> Sub(s, i + Len(MPDM), m[1] - 1),
                   rest |-> Sub(s, m[1], m[2] - 1)]
             ELSE MatchFrom(s, i + 1)

Match(s) == MatchFrom(s, 1)

\* ------------------------------------------------ getChannels: groups.map
\* lines 141-151: the name of a multi-party group
MpimName(name) ==
    LET matched == Match(name)
    IN  IF matched.ok
        THEN LET first == matched.first
                 rest == FilterNonEmpty(Split(matched.rest, <<Hyphen, Hyphen>>))
                 members == MapAt(<<first>> \o rest)
             IN  Join(members, CommaSpace)
        ELSE name

\* lines 137-161: the callback of groups.map
GroupToChannel(g) ==
    [id |-> g.id,
     name |-> IF g.is_mpim THEN MpimName(g.name) ELSE <<"#">> \o g.name,
     type |-> "group"]

\* lines 124-128: the callback of channels.map
ChannelToChannel(c) ==
    [id |-> c.id, name |-> <<"#">> \o c.name, type |-> "channel"]

\* ims.map callback that never looks the partner up
ImToChannelRawId(im, dir) ==
    [id |-> im.id, name |-> <<"@">> \o im.user, type |-> "im"]

\* lines 167-171: the callback of ims.map, with the users argument
ImToChannel(im, dir) ==
    [id |-> im.id,
     name |-> <<"@">> \o (IF im.user \in DOMAIN dir THEN dir[im.user].name
                          ELSE im.user),
     type |-> "im"]

\* Array.prototype.map over an array value
MapArr(a, F(_)) == Arr([k \in 1..Len(a.items) |-> F(a.items[k])])

\* lines 121-130: the then-callback of channels.list; nothing is returned
\* when ok is false
ChannelsThen(response) ==
    IF response.ok THEN MapArr(response.channels, ChannelToChannel)
    ELSE UndefinedObj

\* lines 133-163: the then-callback of groups.list
GroupsThen(response) ==
    IF response.ok THEN MapArr(response.groups, GroupToChannel)
    ELSE UndefinedObj

\* lines 164-173: the then-callback of im.list
DirectsThen(response, dir) ==
    IF response.ok
    THEN MapArr(response.ims, LAMBDA im : ImToChannel(im, dir))
    ELSE UndefinedObj

RECURSIVE Concat(_)
\* line 176: [].concat(...values): an array argument contributes its
\* elements, any other argument is appended as one element
Concat(values) ==
    IF Len(values) = 0 THEN <<>>
    ELSE (IF IsArr(values[1]) THEN values[1].items ELSE <<values[1]>>)
         \o Concat(Tail(values))

\* ---------------------------------------------------------- getMessage
\* lines 10-12
FileAttachment(raw) ==
    IF Truthy(raw.files)
    THEN [name |-> At(raw.files, 0).name,
          permalink |-> At(raw.files, 0).permalink]
    ELSE Null

\* lines 21-27
Reactions(raw) ==
    IF Truthy(raw.reactions)
    THEN [k \in 1..Len(raw.reactions.items) |->
            [name |-> raw.reactions.items[k].name,
             count |-> raw.reactions.items[k].count,
             userIds |-> raw.reactions.items[k].users]]
    ELSE <<>>

\* lines 28-37
Content(raw) ==
    LET a == raw.attachments
    IN  [author |-> IF Truthy(a) THEN At(a, 0).author_name ELSE "",
         authorIcon |-> IF Truthy(a) THEN At(a, 0).author_icon ELSE "",
         pretext |-> IF Truthy(a) THEN At(a, 0).pretext ELSE "",
         title |-> IF Truthy(a) THEN At(a, 0).title ELSE "",
         titleLink |-> IF Truthy(a) THEN At(a, 0).title_link ELSE "",
         text |-> IF Truthy(a) THEN At(a, 0).text ELSE "",
         footer |-> IF Truthy(a) THEN At(a, 0).footer ELSE "",
         borderColor |-> IF Truthy(a) THEN At(a, 0).color ELSE ""]

\* author taken from bot_id first
UserIdBotFirst(raw) == IF TruthyStr(raw.bot_id) THEN raw.bot_id ELSE raw.user

\* line 16
UserId(raw) == IF TruthyStr(raw.user) THEN raw.user ELSE raw.bot_id

\* reading a property of files[0] or attachments[0] when that element is
\* undefined is a TypeError
GetMessageThrows(raw) ==
    \/ Truthy(raw.files) /\ At(raw.files, 0) = UndefinedObj
    \/ Truthy(raw.attachments) /\ At(raw.attachments, 0) = UndefinedObj

\* lines 8-41: Return({ts: record}) or Throw
getMessage(raw) ==
    IF GetMessageThrows(raw) THEN Throw("TypeError")
    ELSE Return(raw.ts :> [userId |-> UserId(raw),
                           timestamp |-> raw.ts,
                           isEdited |-> Truthy(raw.edited),
                           text |-> raw.text,
                           attachment |-> FileAttachment(raw),
                           reactions |-> Reactions(raw),
                           content |-> Content(raw)])

\* --------------------------------------------- getConversationHistory
RECURSIVE ForEachMessage(_, _)
\* lines 65-70: messages.forEach folding into result; a throw of the
\* callback ends the loop
ForEachMessage(messages, result) ==
    IF Len(messages) = 0 THEN Return(result)
    ELSE LET m == getMessage(messages[1])
         IN  IF IsThrow(m) THEN m
             ELSE ForEachMessage(Tail(messages), Spread(result, m.value))

\* lines 60-74: the then-callback of conversations.history
HistoryThen(response) ==
    IF response.ok THEN ForEachMessage(response.messages.items, EmptyObj)
    ELSE Return(EmptyObj)

\* --------------------------------------------------------- getAllUsers
RECURSIVE ForEachMember(_, _)
\* lines 84-90
ForEachMember(members, usersObj) ==
    IF Len(members) = 0 THEN usersObj
    ELSE ForEachMember(Tail(members),
            Spread(usersObj,
                   members[1].id :> [id |-> members[1].id,
                                     name |-> members[1].name,
                                     imageUrl |-> members[1].profile.image_72]))

\* lines 79-94: the then-callback of users.list; the return statement is
\* inside the if, so nothing is returned when ok is false
UsersThen(response) ==
    IF response.ok THEN Return(ForEachMember(response.members.items, EmptyObj))
    ELSE Return(UndefinedObj)

\* ---------------------------------------------------------- getBotInfo
\* lines 100-115: the then-callback of bots.info
BotThen(response) ==
    IF response.ok
    THEN Return(response.bot.id :> [id |-> response.bot.id,
                                    name |-> response.bot.name,
                                    imageUrl |-> response.bot.icons.image_72,
                                    isBot |-> TRUE])
    ELSE Return(EmptyObj)

\* ------------------------- getChannelInfo, markChannel, sendMessage
\* an info dispatch that sends direct messages to channels.info
InfoOpChannelForIm(type) ==
    CASE type = "group" -> "groups.info"
      [] type = "channel" -> "channels.info"
      [] type = "im" -> "channels.info"

\* lines 183-209: the remote operation the switch of getChannelInfo selects
InfoOp(type) ==
    CASE type = "group" -> "groups.info"
      [] type = "channel" -> "channels.info"
      [] type = "im" -> "conversations.info"

\* lines 233-239: the remote operation the switch of markChannel selects
MarkOp(type) ==
    CASE type = "channel" -> "channels.mark"
      [] type = "group" -> "groups.mark"
      [] type = "im" -> "im.mark"

\* lines 187-195, 199-207, 211-219: the then-callback of the info call of a
\* channel of the given kind; destructuring an absent payload is a TypeError
InfoThen(originalChannel, response) ==
    LET field == IF originalChannel.type = "group" THEN "group" ELSE "channel"
    IN  IF field \notin DOMAIN response THEN Throw("TypeError")
        ELSE Return(Spread(originalChannel,
                           [unreadCount |-> response[field].unread_count,
                            readTimestamp |-> response[field].last_read]))

\* ----------------------------------------------------------- inputs
BodyChars == {"a", Hyphen, "1"}
Prefixes == {<<>>, MPDM, <<"x">> \o MPDM}
Bodies == UNION {[1..n -> BodyChars] : n \in 0..MaxBody}
GroupNames == {pre \o body : pre \in Prefixes, body \in Bodies}
RawGroups == [id : {"G1"}, name : GroupNames, is_mpim : BOOLEAN]

\* ------------------------------------------- specification: groups.map
ListOps == {"channels.list", "groups.list", "im.list"}
LookupOps == {"conversations.history", "users.list", "bots.info"}
NoAnswers == [o \in ListOps \cup LookupOps |-> NotYet]

IdleGroup == group = [id |-> "G1", name |-> <<>>, is_mpim |-> FALSE] /\ groupRec = NotYet
IdleMessage == rawMsg = UndefinedObj /\ parsed = NotYet
IdleChannels ==
    /\ users = EmptyObj
    /\ resp = NoAnswers
    /\ listP = [o \in ListOps |-> NoPromise]
    /\ chanP = NoPromise
    /\ order = <<>>
IdleLookups == histP = NoPromise /\ usersP = NoPromise /\ botP = NoPromise
IdleDispatch == invoked = <<>> /\ answers = <<>> /\ retP = <<>>

groupVars == <<group, groupRec>>
messageVars == <<rawMsg, parsed>>
channelsVars == <<users, resp, listP, chanP, order>>
lookupVars == <<histP, usersP, botP>>
dispatchVars == <<invoked, answers, retP>>

InitGroupName ==
    /\ calls = <<>>
    /\ group \in RawGroups
    /\ groupRec = NotYet
    /\ IdleMessage /\ IdleChannels /\ IdleLookups /\ IdleDispatch

\* the callback is applied to the group
MapGroup ==
    /\ groupRec = NotYet
    /\ groupRec' = GroupToChannel(group)
    /\ UNCHANGED <<calls, group, messageVars, channelsVars, lookupVars,
                   dispatchVars>>

NextGroupName == MapGroup

SpecGroupName == InitGroupName /\ [][NextGroupName]_vars

\* ------------------------------------------- specification: getMessage
\* sequences of at most n elements of S
SeqsUpTo(S, n) == UNION {[1..k -> S] : k \in 0..n}
\* an optional array field: absent, or an array of at most n elements of S
OptArr(S, n) == {UndefinedObj} \cup {Arr(q) : q \in SeqsUpTo(S, n)}

RawFiles == {[name |-> "a.png", permalink |-> "https://files/a"]}
RawAttachments ==
    {[author_name |-> "bot", author_icon |-> "icon", pretext |-> "pre",
      title |-> "t", title_link |-> "link", text |-> "body",
      footer |-> Undefined, color |-> "#fff"]}
RawReactions == {[name |-> "+1", count |-> 2, users |-> {"U1", "U2"}]}
RawMessages ==
    [files : OptArr(RawFiles, MaxItems),
     ts : {"1", "2"},
     user : {Undefined, "", "U1"},
     text : {Undefined, "hi"},
     edited : {UndefinedObj, [user |-> "U1", ts |-> "3"]},
     bot_id : {Undefined, "B1"},
     attachments : OptArr(RawAttachments, MaxItems),
     reactions : OptArr(RawReactions, MaxItems)]

InitMessage ==
    /\ calls = <<>>
    /\ rawMsg \in RawMessages
    /\ parsed = NotYet
    /\ IdleGroup /\ IdleChannels /\ IdleLookups /\ IdleDispatch

\* getMessage is applied to the entry
Normalize ==
    /\ parsed = NotYet
    /\ parsed' = getMessage(rawMsg)
    /\ UNCHANGED <<calls, rawMsg, groupVars, channelsVars, lookupVars,
                   dispatchVars>>

NextMessage == Normalize

SpecMessage == InitMessage /\ [][NextMessage]_vars

\* ------------------------------------------ specification: getChannels
NameDev == <<"d", "e", "v">>
NameOps == <<"o", "p", "s">>
NameMpdm == MPDM \o <<"a", "l", Hyphen, Hyphen, "b", "o", Hyphen, "1">>
NameOdd == <<"m", "p", "d", "m", Hyphen, "a", "l">>
IdU1 == <<"U", "1">>
IdU2 == <<"U", "2">>

RawChannelSet == {[id |-> "C1", name |-> NameDev], [id |-> "C2", name |-> NameOps]}
RawGroupSet ==
    {[id |-> "G1", name |-> NameDev, is_mpim |-> FALSE],
     [id |-> "G2", name |-> NameMpdm, is_mpim |-> TRUE],
     [id |-> "G3", name |-> NameOdd, is_mpim |-> TRUE]}
RawImSet == {[id |-> "D1", user |-> IdU1], [id |-> "C1", user |-> IdU2]}
UserDirs ==
    {EmptyObj,
     IdU1 :> [id |-> IdU1, name |-> <<"a", "l">>, imageUrl |-> "https://img/1"]}

\* what the remote can answer to each list call
ListResponses(op) ==
    CASE op = "channels.list" ->
           {[ok |-> FALSE]} \cup
           {[ok |-> TRUE, channels |-> Arr(q)] : q \in SeqsUpTo(RawChannelSet, MaxList)}
      [] op = "groups.list" ->
           {[ok |-> FALSE]} \cup
           {[ok |-> TRUE, groups |-> Arr(q)] : q \in SeqsUpTo(RawGroupSet, MaxList)}
      [] op = "im.list" ->
           {[ok |-> FALSE]} \cup
           {[ok |-> TRUE, ims |-> Arr(q)] : q \in SeqsUpTo(RawImSet, MaxList)}

\* lines 119-173: the then-callback attached to each list call
ListThen(op, response, dir) ==
    CASE op = "channels.list" -> ChannelsThen(response)
      [] op = "groups.list" -> GroupsThen(response)
      [] op = "im.list" -> DirectsThen(response, dir)

\* a join that concatenates the values in the order the calls completed
JoinCompletionOrder(cur, ps, op) ==
    IF cur.state # "pending" THEN cur
    ELSE IF ps[op].state = "rejected" THEN Rejected(ps[op].value)
    ELSE IF \A o \in ListOps : ps[o].state = "fulfilled"
    THEN LET done == Append(order, op)
         IN  Fulfilled(Concat([k \in 1..Len(done) |-> ps[done[k]].value]))
    ELSE cur

\* a join that waits for all three and turns a rejected call into a
\* missing segment
JoinAllSettled(cur, ps, op) ==
    IF cur.state # "pending" THEN cur
    ELSE IF \A o \in ListOps : ps[o].state \in {"fulfilled", "rejected"}
    THEN Fulfilled(Concat([k \in 1..3 |->
            LET o == <<"channels.list", "groups.list", "im.list">>[k]
            IN  IF ps[o].state = "fulfilled" THEN ps[o].value ELSE UndefinedObj]))
    ELSE cur

\* lines 174-178: Promise.all([channels, groups, directs]).then(concat),
\* reacting to ps[op] having settled: the first rejection rejects it, the
\* last fulfilment fulfils it with the values in the order of the array
JoinAll(cur, ps, op) ==
    IF cur.state # "pending" THEN cur
    ELSE IF ps[op].state = "rejected" THEN Rejected(ps[op].value)
    ELSE IF \A o \in ListOps : ps[o].state = "fulfilled"
    THEN Fulfilled(Concat(<<ps["channels.list"].value,
                            ps["groups.list"].value,
                            ps["im.list"].value>>))
    ELSE cur

InitChannels ==
    /\ calls = <<>>
    /\ users \in UserDirs
    /\ resp = NoAnswers
    /\ listP = [o \in ListOps |-> NoPromise]
    /\ chanP = NoPromise
    /\ order = <<>>
    /\ IdleGroup /\ IdleMessage /\ IdleLookups /\ IdleDispatch

\* lines 118-178 up to the return: the three calls are issued one after
\* the other, none awaited
GetChannels ==
    /\ chanP.state = "none"
    /\ calls' = calls \o
          <<[op |-> "channels.list", args |-> [exclude_archived |-> TRUE]],
            [op |-> "groups.list", args |-> [exclude_archived |-> TRUE]],
            [op |-> "im.list", args |-> <<>>]>>
    /\ listP' = [o \in ListOps |-> Pending]
    /\ chanP' = Pending
    /\ UNCHANGED <<users, resp, order, groupVars, messageVars, lookupVars,
                   dispatchVars>>

\* the remote answers one list call: its then-callback runs, then the join
ListRespond(op, response) ==
    /\ listP[op].state = "pending"
    /\ resp' = [resp EXCEPT ![op] = response]
    /\ listP' = [listP EXCEPT ![op] = Settle(Return(ListThen(op, response, users)))]
    /\ order' = Append(order, op)
    /\ chanP' = JoinAll(chanP, listP', op)
    /\ UNCHANGED <<calls, users, groupVars, messageVars, lookupVars,
                   dispatchVars>>

\* one list call fails at the transport level
ListReject(op) ==
    /\ listP[op].state = "pending"
    /\ resp' = [resp EXCEPT ![op] = TransportError(op)]
    /\ listP' = [listP EXCEPT ![op] = Rejected(TransportError(op))]
    /\ order' = Append(order, op)
    /\ chanP' = JoinAll(chanP, listP', op)
    /\ UNCHANGED <<calls, users, groupVars, messageVars, lookupVars,
                   dispatchVars>>

NextChannels ==
    \/ GetChannels
    \/ \E op \in ListOps : \E response \in ListResponses(op) : ListRespond(op, response)
    \/ \E op \in ListOps : ListReject(op)

SpecChannels == InitChannels /\ [][NextChannels]_vars

\* ------------------------------ specification: getConversationHistory
MsgUser == [files |-> UndefinedObj, ts |-> "1", user |-> "U1", text |-> "hi",
            edited |-> UndefinedObj, bot_id |-> Undefined,
            attachments |-> UndefinedObj, reactions |-> UndefinedObj]
MsgBot == [MsgUser EXCEPT !.user = Undefined, !.bot_id = "B1", !.text = "beep"]
MsgFile == [MsgUser EXCEPT !.ts = "2",
                !.files = Arr(<<[name |-> "a.png", permalink |-> "https://files/a"]>>)]
MsgNoFiles == [MsgUser EXCEPT !.ts = "2", !.files = Arr(<<>>)]
HistoryEntries == {MsgUser, MsgBot, MsgFile, MsgNoFiles}
HistoryResponses ==
    {[ok |-> FALSE]} \cup
    {[ok |-> TRUE, messages |-> Arr(q)] : q \in SeqsUpTo(HistoryEntries, MaxMsgs)}
ChannelIds == {"C1", "D1"}

InitHistory ==
    /\ calls = <<>>
    /\ histP = NoPromise /\ usersP = NoPromise /\ botP = NoPromise
    /\ IdleGroup /\ IdleMessage /\ IdleChannels /\ IdleDispatch

\* lines 57-59: the call is made and the promise returned
GetConversationHistory(channel) ==
    /\ histP.state = "none"
    /\ calls' = Append(calls, [op |-> "conversations.history",
                               args |-> [channel |-> channel, limit |-> HISTORY_LIMIT]])
    /\ histP' = Pending
    /\ UNCHANGED <<resp, usersP, botP, users, listP, chanP, order, groupVars,
                   messageVars, dispatchVars>>

\* the remote answers: the then-callback of lines 60-74 runs
HistoryRespond(response) ==
    /\ histP.state = "pending"
    /\ resp' = [resp EXCEPT !["conversations.history"] = response]
    /\ histP' = Settle(HistoryThen(response))
    /\ UNCHANGED <<calls, usersP, botP, users, listP, chanP, order, groupVars,
                   messageVars, dispatchVars>>

\* the call fails at the transport level
HistoryReject ==
    /\ histP.state = "pending"
    /\ resp' = [resp EXCEPT !["conversations.history"] =
                                 TransportError("conversations.history")]
    /\ histP' = Rejected(TransportError("conversations.history"))
    /\ UNCHANGED <<calls, usersP, botP, users, listP, chanP, order,
                   groupVars, messageVars, dispatchVars>>

NextHistory ==
    \/ \E channel \in ChannelIds : GetConversationHistory(channel)
    \/ \E response \in HistoryResponses : HistoryRespond(response)
    \/ HistoryReject

SpecHistory == InitHistory /\ [][NextHistory]_vars

\* ------------------------------ specification: getAllUsers, getBotInfo
Member(id, name, url) == [id |-> id, name |-> name, profile |-> [image_72 |-> url]]
Members ==
    {Member("U1", "alice", "https://img/1"), Member("U2", "bob", "https://img/2"),
     Member("U1", "al", "https://img/3")}
UsersResponses ==
    {[ok |-> FALSE]} \cup
    {[ok |-> TRUE, members |-> Arr(q)] : q \in SeqsUpTo(Members, MaxList)}
BotIds == {"B1", "B2"}
BotResponses(botId) ==
    {[ok |-> FALSE],
     [ok |-> TRUE, bot |-> [id |-> botId, name |-> "ci", icons |-> [image_72 |-> "https://img/bot"]]]}

InitUsers == InitHistory

\* lines 77-79: the call is made and the promise returned
GetAllUsers ==
    /\ usersP.state = "none"
    /\ calls' = Append(calls, [op |-> "users.list", args |-> <<>>])
    /\ usersP' = Pending
    /\ UNCHANGED <<resp, histP, botP, users, listP, chanP, order, groupVars,
                   messageVars, dispatchVars>>

\* the remote answers: the then-callback of lines 79-94 runs
UsersRespond(response) ==
    /\ usersP.state = "pending"
    /\ resp' = [resp EXCEPT !["users.list"] = response]
    /\ usersP' = Settle(UsersThen(response))
    /\ UNCHANGED <<calls, histP, botP, users, listP, chanP, order, groupVars,
                   messageVars, dispatchVars>>

\* the call fails at the transport level
UsersReject ==
    /\ usersP.state = "pending"
    /\ resp' = [resp EXCEPT !["users.list"] = TransportError("users.list")]
    /\ usersP' = Rejected(TransportError("users.list"))
    /\ UNCHANGED <<calls, histP, botP, users, listP, chanP, order, groupVars,
                   messageVars, dispatchVars>>

\* lines 97-99: the call is made and the promise returned
GetBotInfo(botId) ==
    /\ botP.state = "none"
    /\ calls' = Append(calls, [op |-> "bots.info", args |-> [bot |-> botId]])
    /\ botP' = Pending
    /\ UNCHANGED <<resp, histP, usersP, users, listP, chanP, order, groupVars,
                   messageVars, dispatchVars>>

\* the bot the bots.info call asked for
AskedBot == calls[CHOOSE k \in 1..Len(calls) : calls[k].op = "bots.info"].args.bot

\* the remote answers: the then-callback of lines 100-115 runs
BotRespond(response) ==
    /\ botP.state = "pending"
    /\ response \in BotResponses(AskedBot)
    /\ resp' = [resp EXCEPT !["bots.info"] = response]
    /\ botP' = Settle(BotThen(response))
    /\ UNCHANGED <<calls, histP, usersP, users, listP, chanP, order, groupVars,
                   messageVars, dispatchVars>>

\* the call fails at the transport level
BotReject ==
    /\ botP.state = "pending"
    /\ resp' = [resp EXCEPT !["bots.info"] = TransportError("bots.info")]
    /\ botP' = Rejected(TransportError("bots.info"))
    /\ UNCHANGED <<calls, histP, usersP, users, listP, chanP, order, groupVars,
                   messageVars, dispatchVars>>

NextUsers ==
    \/ GetAllUsers
    \/ \E response \in UsersResponses : UsersRespond(response)
    \/ UsersReject
    \/ \E botId \in BotIds : GetBotInfo(botId)
    \/ \E response \in UNION {BotResponses(b) : b \in BotIds} : BotRespond(response)
    \/ BotReject

SpecUsers == InitUsers /\ [][NextUsers]_vars

\* ------- specification: getChannelInfo, markChannel, sendMessage
Kinds == {"channel", "group", "im"}
PlainChannels == [id : {"X1", "X2"}, name : {NameDev}, type : Kinds]
\* channels that already carry read state from an earlier getChannelInfo
SeenChannels ==
    {[id |-> "X1", name |-> NameDev, type |-> t, unreadCount |-> 7,
      readTimestamp |-> "0"] : t \in Kinds}
Timestamps == {"5"}
Texts == {"hello"}

\* what the remote answers to an info operation: the payload is under
\* `group` for groups.info and under `channel` for the other two
InfoResponses(op) ==
    LET payloads == [unread_count : {0, 3}, last_read : {"4"}]
    IN  IF op = "groups.info" THEN {[ok |-> TRUE, group |-> pl] : pl \in payloads}
        ELSE {[ok |-> TRUE, channel |-> pl] : pl \in payloads}

InitDispatch ==
    /\ calls = <<>>
    /\ invoked = <<>> /\ answers = <<>> /\ retP = <<>>
    /\ IdleGroup /\ IdleMessage /\ IdleChannels /\ IdleLookups

\* lines 181-186, 196-198, 208-210: the call of the channel's kind is made
GetChannelInfo(originalChannel) ==
    /\ Len(invoked) < MaxInvocations
    /\ invoked' = Append(invoked, [fn |-> "getChannelInfo", channel |-> originalChannel])
    /\ calls' = Append(calls, [op |-> InfoOp(originalChannel.type),
                               args |-> [channel |-> originalChannel.id]])
    /\ answers' = Append(answers, NotYet)
    /\ retP' = Append(retP, Pending)
    /\ UNCHANGED <<groupVars, messageVars, channelsVars, lookupVars>>

\* lines 231-241: the call of the channel's kind is made, its promise returned
MarkChannel(channel, ts) ==
    /\ Len(invoked) < MaxInvocations
    /\ invoked' = Append(invoked, [fn |-> "markChannel", channel |-> channel, ts |-> ts])
    /\ calls' = Append(calls, [op |-> MarkOp(channel.type),
                               args |-> [channel |-> channel.id, ts |-> ts]])
    /\ answers' = Append(answers, NotYet)
    /\ retP' = Append(retP, Pending)
    /\ UNCHANGED <<groupVars, messageVars, channelsVars, lookupVars>>

\* lines 223-229
SendMessage(channel, text) ==
    /\ Len(invoked) < MaxInvocations
    /\ invoked' = Append(invoked, [fn |-> "sendMessage", channel |-> channel, text |-> text])
    /\ calls' = Append(calls, [op |-> "chat.postMessage",
                               args |-> [channel |-> channel, text |-> text,
                                         as_user |-> TRUE]])
    /\ answers' = Append(answers, NotYet)
    /\ retP' = Append(retP, Pending)
    /\ UNCHANGED <<groupVars, messageVars, channelsVars, lookupVars>>

\* the remote answers the info call of invocation k: the then-callback runs
InfoRespond(k, response) ==
    /\ retP[k].state = "pending"
    /\ invoked[k].fn = "getChannelInfo"
    /\ response \in InfoResponses(calls[k].op)
    /\ answers' = [answers EXCEPT ![k] = response]
    /\ retP' = [retP EXCEPT ![k] = Settle(InfoThen(invoked[k].channel, response))]
    /\ UNCHANGED <<calls, invoked, groupVars, messageVars, channelsVars, lookupVars>>

\* the remote answers the mark or post call of invocation k: the client's
\* promise is the one that was returned
PlainRespond(k) ==
    /\ retP[k].state = "pending"
    /\ invoked[k].fn \in {"markChannel", "sendMessage"}
    /\ answers' = [answers EXCEPT ![k] = [ok |-> TRUE]]
    /\ retP' = [retP EXCEPT ![k] = Fulfilled([ok |-> TRUE])]
    /\ UNCHANGED <<calls, invoked, groupVars, messageVars, channelsVars, lookupVars>>

\* the call of invocation k fails
DispatchReject(k) ==
    /\ retP[k].state = "pending"
    /\ answers' = [answers EXCEPT ![k] = TransportError(calls[k].op)]
    /\ retP' = [retP EXCEPT ![k] = Rejected(TransportError(calls[k].op))]
    /\ UNCHANGED <<calls, invoked, groupVars, messageVars, channelsVars, lookupVars>>

NextDispatch ==
    \/ \E c \in PlainChannels \cup SeenChannels : GetChannelInfo(c)
    \/ \E c \in PlainChannels : \E ts \in Timestamps : MarkChannel(c, ts)
    \/ \E c \in ChannelIds : \E text \in Texts : SendMessage(c, text)
    \/ \E k \in 1..Len(invoked) :
          \E response \in UNION {InfoResponses(InfoOp(t)) : t \in Kinds} :
             InfoRespond(k, response)
    \/ \E k \in 1..Len(invoked) : PlainRespond(k)
    \/ \E k \in 1..Len(invoked) : DispatchReject(k)

SpecDispatch == InitDispatch /\ [][NextDispatch]_vars

\* ===================================================== properties
\* -------------------------------------------- the multi-party encoding
\* The encoding is described here character by character, without the
\* matcher: mpdm-<token>(--<token>)*-<digits>, tokens free of hyphens.
AllDigits(w) == Len(w) > 0 /\ \A k \in 1..Len(w) : IsDigit(w[k])

\* p is one or more non-empty hyphen-free tokens separated by "--"
TokenList(p) ==
    /\ Len(p) > 0
    /\ p[1] # Hyphen
    /\ p[Len(p)] # Hyphen
    /\ \A k \in 1..Len(p) :
         p[k] = Hyphen =>
            (k > 1 /\ p[k - 1] = Hyphen) # (k < Len(p) /\ p[k + 1] = Hyphen)

\* position of the hyphen that starts the numeric suffix of w, 0 if none
SuffixAt(w) ==
    IF \E k \in 1..Len(w) : w[k] = Hyphen /\ AllDigits(Sub(w, k + 1, Len(w)))
    THEN CHOOSE k \in 1..Len(w) : w[k] = Hyphen /\ AllDigits(Sub(w, k + 1, Len(w)))
    ELSE 0

\* the token part of w
TokenPart(w) == Sub(w, Len(MPDM) + 1, SuffixAt(w) - 1)

\* w as a whole is an encoded multi-party name
EncodedForm(w) ==
    /\ LitAt(w, 1, MPDM)
    /\ SuffixAt(w) > Len(MPDM)
    /\ TokenList(TokenPart(w))

\* some part of w is an encoded multi-party name
ContainsEncoded(w) ==
    \E i \in 1..Len(w) : \E j \in i..Len(w) : EncodedForm(Sub(w, i, j))

RECURSIVE RenderTail(_)
RenderTail(p) ==
    IF Len(p) = 0 THEN <<>>
    ELSE IF LitAt(p, 1, <<Hyphen, Hyphen>>)
    THEN <<",", " ", "@">> \o RenderTail(Sub(p, 3, Len(p)))
    ELSE <<p[1]>> \o RenderTail(Tail(p))

\* the tokens of p, each prefixed with @, joined by ", "
Render(p) == <<"@">> \o RenderTail(p)

\* C4 (as amended): a group flagged multi-party whose raw name is an encoded
\* multi-party name gets the member tokens in order, each prefixed with @
\* and joined by ", ", the numeric suffix dropped; a group flagged
\* multi-party whose raw name contains no encoded name keeps its raw name;
\* a group not flagged multi-party gets # followed by its raw name, whether
\* or not the name is of the encoded form.
GroupNameDecoded ==
    groupRec # NotYet =>
        /\ groupRec.id = group.id /\ groupRec.type = "group"
        /\ group.is_mpim /\ EncodedForm(group.name)
              => groupRec.name = Render(TokenPart(group.name))
        /\ group.is_mpim /\ ~ContainsEncoded(group.name)
              => groupRec.name = group.name
        /\ ~group.is_mpim => groupRec.name = <<"#">> \o group.name

\* C4 witness: mpdm-a--1--a-1, flagged multi-party, was decoded to
\* "@a, @1, @a"
GroupNameDecodedWitness ==
    /\ groupRec # NotYet
    /\ group.is_mpim
    /\ group.name = MPDM \o <<"a", Hyphen, Hyphen, "1", Hyphen, Hyphen, "a", Hyphen, "1">>
    /\ groupRec.name = <<"@", "a", ",", " ", "@", "1", ",", " ", "@", "a">>

\* C4 as stated: every group whose raw name is of the encoded form gets the
\* decoded name, and every other group keeps its raw name.
GroupNameByPatternAlone ==
    groupRec # NotYet =>
        /\ EncodedForm(group.name) => groupRec.name = Render(TokenPart(group.name))
        /\ ~ContainsEncoded(group.name) => groupRec.name = group.name

\* ------------------------------------------------------------ getMessage
ParsedRecord == parsed.value[rawMsg.ts]

\* C5 (as amended): the record's author id is the entry's user whenever the
\* entry has a non-empty user, is the entry's bot_id whenever it has no
\* (or an empty) user, and is absent exactly when the entry has neither a
\* non-empty user nor a bot_id.
AuthorFromUserOrBot ==
    (parsed # NotYet /\ ~IsThrow(parsed)) =>
        /\ DOMAIN parsed.value = {rawMsg.ts}
        /\ rawMsg.user \notin {Undefined, ""} => ParsedRecord.userId = rawMsg.user
        /\ rawMsg.user \in {Undefined, ""} => ParsedRecord.userId = rawMsg.bot_id
        /\ ParsedRecord.userId = Undefined
              <=> (rawMsg.user \in {Undefined, ""} /\ rawMsg.bot_id = Undefined)

\* C5 witness: an entry without user and with bot_id was normalized
AuthorFromBotWitness ==
    /\ parsed # NotYet /\ ~IsThrow(parsed)
    /\ rawMsg.user = Undefined /\ rawMsg.bot_id = "B1"
    /\ ParsedRecord.userId = "B1"

\* C5 as stated: user when there is one, else bot_id, and never absent.
AuthorNeverAbsent ==
    (parsed # NotYet /\ ~IsThrow(parsed)) =>
        /\ rawMsg.user \notin {Undefined, ""} => ParsedRecord.userId = rawMsg.user
        /\ (rawMsg.user = Undefined /\ rawMsg.bot_id # Undefined)
              => ParsedRecord.userId = rawMsg.bot_id
        /\ ParsedRecord.userId # Undefined

\* a field that is absent or an empty list
NoElement(v) == v = UndefinedObj \/ Len(v.items) = 0

EmptyContent ==
    [author |-> "", authorIcon |-> "", pretext |-> "", title |-> "",
     titleLink |-> "", text |-> "", footer |-> "", borderColor |-> ""]

\* C7 as stated: on an entry whose files, attachments and reactions are each
\* absent or empty, getMessage returns a record with a null attachment,
\* empty rich-content fields and an empty reaction list.
ShapeMismatchTolerated ==
    (/\ parsed # NotYet
     /\ NoElement(rawMsg.files)
     /\ NoElement(rawMsg.attachments)
     /\ NoElement(rawMsg.reactions)) =>
        /\ ~IsThrow(parsed)
        /\ ParsedRecord.attachment = Null
        /\ ParsedRecord.content = EmptyContent
        /\ ParsedRecord.reactions = <<>>

\* ----------------------------------------------------------- getChannels
Range(q) == {q[k] : k \in 1..Len(q)}

\* position in order of the first call that was rejected
FirstRejected ==
    CHOOSE k \in 1..Len(order) :
        /\ listP[order[k]].state = "rejected"
        /\ \A j \in 1..(k - 1) : listP[order[j]].state # "rejected"

OpOrder == <<"channels.list", "groups.list", "im.list">>
KindOf(op) ==
    CASE op = "channels.list" -> "channel"
      [] op = "groups.list" -> "group"
      [] op = "im.list" -> "im"

\* the remote answered op, and the answer reports success
Succeeded(op) == "ok" \in DOMAIN resp[op] /\ resp[op].ok

\* the raw entries of a successful answer, in the order the remote gave them
Entries(op) ==
    IF ~Succeeded(op) THEN <<>>
    ELSE CASE op = "channels.list" -> resp[op].channels.items
           [] op = "groups.list" -> resp[op].groups.items
           [] op = "im.list" -> resp[op].ims.items

\* <<id, kind>> of every raw entry of a segment
Keys(op) == [k \in 1..Len(Entries(op)) |-> <<Entries(op)[k].id, KindOf(op)>>]

\* the channel records of the combined list (undefined elements left out)
Records(list) == SelectSeq(list, LAMBDA r : r.type # "undefined")

\* C1 as stated: the combined list is as long as the successful segments
\* together; a segment that reports failure contributes no element.
FailedSegmentContributesNothing ==
    chanP.state = "fulfilled" =>
        Len(chanP.value) =
            Len(Entries("channels.list")) + Len(Entries("groups.list"))
                + Len(Entries("im.list"))

\* C2: the three calls are issued together before any of them completes;
\* the combined list exists only once all three have returned; and whatever
\* the completion order, its channel records are the public-channel entries,
\* then the group entries, then the direct-message entries, each segment in
\* the remote's order and with repeated ids kept (when all three answers
\* report success the list holds nothing else).
FixedOrderWhateverCompletion ==
    /\ chanP.state # "none" =>
          /\ Len(calls) = 3
          /\ \A k \in 1..3 : calls[k].op = OpOrder[k]
    /\ chanP.state = "none" => calls = <<>>
    /\ chanP.state = "fulfilled" =>
          /\ \A o \in ListOps : resp[o] # NotYet
          /\ LET recs == Records(chanP.value)
             IN  [k \in 1..Len(recs) |-> <<recs[k].id, recs[k].type>>]
                    = Keys("channels.list") \o Keys("groups.list") \o Keys("im.list")
          /\ (\A o \in ListOps : Succeeded(o)) => Records(chanP.value) = chanP.value

\* C2 witness: the direct-message call completed first and the public-channel
\* call last, every segment has an entry, one id occurs twice, and the list
\* was combined
FixedOrderWitness ==
    /\ chanP.state = "fulfilled"
    /\ order = <<"im.list", "groups.list", "channels.list">>
    /\ \A o \in ListOps : Len(Entries(o)) > 0
    /\ \E i, j \in 1..Len(chanP.value) : i # j /\ chanP.value[i].id = chanP.value[j].id

\* the name rule of one kind, applied to a raw entry
ChannelNameOk(r, c) == r.name = <<"#">> \o c.name
ImNameOk(r, im) ==
    r.name = <<"@">> \o (IF \E u \in DOMAIN users : u = im.user
                         THEN users[im.user].name ELSE im.user)
GroupNameOk(r, g) ==
    /\ ~g.is_mpim => r.name = <<"#">> \o g.name
    /\ g.is_mpim /\ EncodedForm(g.name) => r.name = Render(TokenPart(g.name))
    /\ g.is_mpim /\ ~ContainsEncoded(g.name) => r.name = g.name

\* where segment op starts among the channel records of the combined list
Offset(op) ==
    CASE op = "channels.list" -> 0
      [] op = "groups.list" -> Len(Entries("channels.list"))
      [] op = "im.list" -> Len(Entries("channels.list")) + Len(Entries("groups.list"))

\* C3 (as amended): in the combined list a public channel is named # + raw
\* name; a group not flagged multi-party # + raw name; a group flagged
\* multi-party the ", "-joined @-prefixed member tokens when its raw name is
\* an encoded multi-party name, and its raw name unchanged (so possibly with
\* neither # nor @ in front) when the raw name contains no encoded name; a
\* direct message @ + the partner's directory name, or @ + the partner's raw
\* id when the id is not in the directory.
DisplayNameByKind ==
    chanP.state = "fulfilled" =>
        LET recs == Records(chanP.value)
        IN  /\ \A k \in 1..Len(Entries("channels.list")) :
                  ChannelNameOk(recs[Offset("channels.list") + k],
                                Entries("channels.list")[k])
            /\ \A k \in 1..Len(Entries("groups.list")) :
                  GroupNameOk(recs[Offset("groups.list") + k],
                              Entries("groups.list")[k])
            /\ \A k \in 1..Len(Entries("im.list")) :
                  ImNameOk(recs[Offset("im.list") + k], Entries("im.list")[k])

\* C3 witness: a list with a decoded multi-party group, a multi-party group
\* kept verbatim, a resolved and an unresolved direct message was returned
DisplayNameWitness ==
    /\ chanP.state = "fulfilled" /\ (\A o \in ListOps : Succeeded(o))
    /\ Len(Entries("channels.list")) > 0
    /\ \E r \in Range(chanP.value) : r.name = <<"@", "a", "l", ",", " ", "@", "b", "o">>
    /\ \E r \in Range(chanP.value) : r.name = NameOdd
    /\ \E r \in Range(chanP.value) : r.name = <<"@", "a", "l">>
    /\ \E r \in Range(chanP.value) : r.name = <<"@">> \o IdU2

\* C3 as stated: every returned record's name follows the rule of its kind,
\* a group being # + raw name unless decoded; in particular every name
\* starts with # or @.
EveryNameHasSigil ==
    chanP.state = "fulfilled" =>
        \A r \in Range(Records(chanP.value)) :
            Len(r.name) > 0 /\ r.name[1] \in {"#", "@"}

\* C10: once one of the three list calls is rejected getChannels is
\* rejected, with that call's failure, and holds no list; no call is issued
\* beyond the first three.
RejectionNeverSwallowed ==
    /\ Len(calls) \in {0, 3}
    /\ \A o \in ListOps :
          listP[o].state = "rejected" =>
              /\ chanP.state = "rejected"
              /\ chanP.value.type = "error"
              /\ chanP.value = listP[order[FirstRejected]].value

\* C10 witness: the group call was rejected after the public-channel call
\* had returned, and the direct-message call returned after the rejection
RejectionWitness ==
    /\ order = <<"channels.list", "groups.list", "im.list">>
    /\ listP["channels.list"].state = "fulfilled"
    /\ listP["groups.list"].state = "rejected"
    /\ listP["im.list"].state = "fulfilled"
    /\ chanP.state = "rejected"

\* ------------------------------------------------ getConversationHistory
\* the remote answered op with a response (not a transport failure)
Answered(op) == "ok" \in DOMAIN resp[op]

\* the last element of q satisfying P
LastWith(q, P(_)) ==
    q[CHOOSE k \in 1..Len(q) : P(q[k]) /\ \A j \in (k + 1)..Len(q) : ~P(q[j])]

\* C6 as stated: one conversations.history call with limit 50; on a response
\* reporting success the result is the mapping from the timestamps of the
\* returned entries to the record getMessage builds for the last entry with
\* that timestamp; on a response reporting failure it is the empty mapping.
HistoryIsMappingOfEntries ==
    /\ histP.state # "none" =>
          /\ Len(calls) = 1
          /\ calls[1].op = "conversations.history"
          /\ calls[1].args.limit = 50
    /\ Answered("conversations.history") =>
          LET r == resp["conversations.history"]
          IN  /\ histP.state = "fulfilled"
              /\ ~r.ok => histP.value = EmptyObj
              /\ r.ok =>
                    /\ DOMAIN histP.value = {m.ts : m \in Range(r.messages.items)}
                    /\ \A t \in DOMAIN histP.value :
                          /\ histP.value[t].timestamp = t
                          /\ histP.value[t] =
                                getMessage(LastWith(r.messages.items,
                                                    LAMBDA m : m.ts = t)).value[t]

\* --------------------------------------------- getAllUsers, getBotInfo
\* C8 as stated: both lookups resolve to an id -> User mapping: one entry per
\* member id (id, name, image_72), respectively the one bot flagged as a
\* bot, on a response reporting success, and the empty mapping, never an
\* absent value, on a response reporting failure.
LookupsAlwaysResolveToMapping ==
    /\ Answered("users.list") =>
          LET r == resp["users.list"]
          IN  /\ usersP.state = "fulfilled"
              /\ usersP.value # UndefinedObj
              /\ ~r.ok => usersP.value = EmptyObj
              /\ r.ok =>
                    /\ DOMAIN usersP.value = {m.id : m \in Range(r.members.items)}
                    /\ \A id \in DOMAIN usersP.value :
                          LET m == LastWith(r.members.items, LAMBDA x : x.id = id)
                          IN  usersP.value[id] =
                                [id |-> id, name |-> m.name,
                                 imageUrl |-> m.profile.image_72]
    /\ Answered("bots.info") =>
          LET r == resp["bots.info"]
          IN  /\ botP.state = "fulfilled"
              /\ botP.value # UndefinedObj
              /\ ~r.ok => botP.value = EmptyObj
              /\ r.ok =>
                    /\ DOMAIN botP.value = {r.bot.id}
                    /\ botP.value[r.bot.id] =
                          [id |-> r.bot.id, name |-> r.bot.name,
                           imageUrl |-> r.bot.icons.image_72, isBot |-> TRUE]

\* -------------------------------------------- getChannelInfo, markChannel
\* C9: every markChannel and getChannelInfo invocation makes exactly one
\* remote call, the one of the channel's kind, with the channel's id; and
\* the record getChannelInfo resolves to is the input channel with its id,
\* name and kind unchanged and the response's unread count and last-read
\* timestamp added.
KindDirectedDispatch ==
    /\ Len(calls) = Len(invoked)
    /\ \A k \in 1..Len(invoked) :
          LET i == invoked[k]
              c == calls[k]
          IN  /\ i.fn = "markChannel" =>
                    /\ c.op = (CASE i.channel.type = "channel" -> "channels.mark"
                                 [] i.channel.type = "group" -> "groups.mark"
                                 [] i.channel.type = "im" -> "im.mark")
                    /\ c.args = [channel |-> i.channel.id, ts |-> i.ts]
              /\ i.fn = "getChannelInfo" =>
                    /\ c.op = (CASE i.channel.type = "channel" -> "channels.info"
                                 [] i.channel.type = "group" -> "groups.info"
                                 [] i.channel.type = "im" -> "conversations.info")
                    /\ c.args = [channel |-> i.channel.id]
                    /\ "ok" \in DOMAIN answers[k] =>
                          LET payload == IF i.channel.type = "group"
                                         THEN answers[k].group
                                         ELSE answers[k].channel
                          IN  /\ retP[k].state = "fulfilled"
                              /\ retP[k].value.id = i.channel.id
                              /\ retP[k].value.name = i.channel.name
                              /\ retP[k].value.type = i.channel.type
                              /\ DOMAIN retP[k].value =
                                    {"id", "name", "type", "unreadCount", "readTimestamp"}
                              /\ retP[k].value.unreadCount = payload.unread_count
                              /\ retP[k].value.readTimestamp = payload.last_read

\* C9 witness: a direct message was marked read through im.mark, and
\* getChannelInfo resolved for a direct message that already carried read
\* state, through conversations.info
KindDirectedWitness ==
    /\ Len(invoked) = 2
    /\ invoked[1].fn = "markChannel" /\ invoked[1].channel.type = "im"
    /\ calls[1].op = "im.mark"
    /\ invoked[2].fn = "getChannelInfo" /\ invoked[2].channel.type = "im"
    /\ invoked[2].channel \in SeenChannels
    /\ calls[2].op = "conversations.info"
    /\ retP[2].state = "fulfilled" /\ retP[2].value.unreadCount = 3

====
